---- MODULE Spec2Model ----
(***************************************************************************)
(* Model of the incremental file copy engine of heft's CopyFilesPlugin     *)
(* (copyFilesAsync, _getCopyDescriptorsAsync, _copyFilesInnerAsync), and   *)
(* of rush-lib's BaseInstallAction.runAsync.                               *)
(*                                                                         *)
(* A path is a sequence of segments (<<"src","sub","a.txt">>).  A Map or   *)
(* Set of the program is a sequence in insertion order, which is the order *)
(* JavaScript iterates it in.  One run of copyFilesAsync is a chain of     *)
(* steps; every await of the program is a point where the steps of other   *)
(* in-flight callbacks interleave.                                         *)
(***************************************************************************)
EXTENDS Naturals, Sequences, FiniteSets, TLC

VARIABLES
  files,        \* source tree: file path -> content (0: the file does not exist)
  dest,         \* destination tree: file path -> content (0: no such file)
  snapshot,     \* the build info file at buildInfoPath
  result,       \* outcome of copyFilesAsync: none, running, ok, conflict, sourceError, transferError
  phase,        \* idle, resolve, hash, transfer
  ops,          \* copyOperations of the current run
  configHash,   \* configHash of the current run
  opState,      \* per copy operation: queued, running (awaiting the file enumeration), done, threw
  copyDescriptorByDestination,  \* Map<destination, ICopyDescriptor>, in insertion order
  opError,      \* per copy operation: destination named by the error it threw (<<>>: none)
  conflictPath, \* destination named by the error that rejected the run (<<>>: none)
  oldBuildInfo, \* what tryReadBuildInfoAsync returned, after the configHash test
  allInputFiles,     \* Set<string> of distinct source paths, in insertion order
  hashState,         \* per input file: queued, running (awaiting the read), done, threw
  inputFileVersions, \* Map<source path, content hash> of the current run
  copyDescriptorsWithWork, \* the transfer set, in order
  xferState,         \* per descriptor with work: queued, running, done, threw
  copiedFileCount,
  linkedFileCount,
  terminal,     \* lines written with terminal.writeLine / writeVerboseLine in this run
  io,           \* file system accesses of the current run, by kind
  snapAtStart,  \* the build info file as it was when the current run started
  last,         \* the previous run: its result, copyOperations and source tree
  snapTouched,  \* the build info file was changed from outside since the previous run
  runs,         \* number of runs started
  pc,           \* BaseInstallAction.runAsync: the statement it is at
  args,         \* the command line parameters and the rush configuration of the run
  selectedSubspaces,    \* undefined, or the Set<Subspace> in insertion order
  warnAboutScriptUpdate,
  installSuccessful,
  installed,    \* number of _doInstall calls that have resolved
  thrown,       \* the error runAsync is about to reject with ("none": no error)
  events        \* what the run did so far, in order

vars == <<files, dest, snapshot, result, phase, ops, configHash, opState, opError,
          copyDescriptorByDestination, conflictPath, oldBuildInfo, allInputFiles,
          hashState, inputFileVersions, copyDescriptorsWithWork, xferState,
          copiedFileCount, linkedFileCount, terminal, io, snapAtStart, last,
          snapTouched, runs,
          pc, args, selectedSubspaces, warnAboutScriptUpdate, installSuccessful,
          installed, thrown, events>>

copyVars == <<files, dest, snapshot, result, phase, ops, configHash, opState, opError,
              copyDescriptorByDestination, conflictPath, oldBuildInfo, allInputFiles,
              hashState, inputFileVersions, copyDescriptorsWithWork, xferState,
              copiedFileCount, linkedFileCount, terminal, io, snapAtStart, last,
              snapTouched, runs>>
installVars == <<pc, args, selectedSubspaces, warnAboutScriptUpdate, installSuccessful,
                 installed, thrown, events>>

envVars == <<files, dest, snapshot>>
resolveVars == <<opState, opError, copyDescriptorByDestination, conflictPath>>
hashVars == <<allInputFiles, hashState, inputFileVersions, oldBuildInfo>>
xferVars == <<copyDescriptorsWithWork, xferState, copiedFileCount, linkedFileCount>>
histVars == <<snapAtStart, last, snapTouched, runs>>

----------------------------------------------------------------------------
(* Bounds of the model *)

MaxRuns == 3
MaxOps == 2
MaxSubspaces == 2

(* Constants.maxParallelism, scaled down so that a phase can have more work *)
(* than the bound lets run at once *)
maxParallelism == 2

----------------------------------------------------------------------------
(* The file system universe *)

SourceFolder == <<"src">>
FileA == <<"src", "a.txt">>
FileB == <<"src", "sub", "a.txt">>
SourceFiles == {FileA, FileB}

OutD == <<"out">>
OutE == <<"lib">>
RelPaths == {<<"a.txt">>, <<"sub", "a.txt">>}
DestPaths == {d \o r : d \in {OutD, OutE}, r \in RelPaths}

(* File contents; 0 stands for no file *)
Contents == {1, 2}

Range(s) == {s[i] : i \in DOMAIN s}

----------------------------------------------------------------------------
(* path.basename, path.relative, path.resolve on segment sequences *)

(* Everything below the first folder of the path *)
basenameWithFolders(p) == SubSeq(p, 2, Len(p))

basename(p) == <<p[Len(p)]>>

relative(from, to) == SubSeq(to, Len(from) + 1, Len(to))

resolve(folder, rel) == folder \o rel

(* ICopyOperation.  flatten and hardlink are optional booleans: "undefined", *)
(* "false" or "true". *)
CopyOperation(glob, folders, flatten, hardlink) ==
  [sourcePath |-> SourceFolder, includeGlobs |-> glob, destinationFolders |-> folders,
   flatten |-> flatten, hardlink |-> hardlink]

(* JavaScript truthiness of an optional boolean: !!x, and x ? a : b *)
Truthy(x) == x = "true"

(* getFileSelectionSpecifierPathsAsync: the existing files under sourcePath   *)
(* that the include glob matches, in a fixed order.  "*" matches the files    *)
(* directly in the folder, "**/*" the files at any depth.                     *)
GlobMatches(glob, rel) ==
  \/ glob = "**/*"
  \/ glob = "*" /\ Len(rel) = 1

getFileSelectionSpecifierPaths(op, tree) ==
  LET hit(f) == /\ tree[f] # 0
                /\ Len(f) > Len(op.sourcePath)
                /\ SubSeq(f, 1, Len(op.sourcePath)) = op.sourcePath
                /\ GlobMatches(op.includeGlobs, relative(op.sourcePath, f))
  IN  SelectSeq(<<FileA, FileB>>, hit)

----------------------------------------------------------------------------
(* JSON.stringify(copyOperation) as a token sequence; a property whose value *)
(* is undefined is left out.  hasher.update appends, digest is taken to be   *)
(* injective on what was appended.                                           *)

RECURSIVE Concat(_)
Concat(ss) == IF ss = <<>> THEN <<>> ELSE Head(ss) \o Concat(Tail(ss))

JsonString(p) == <<"'">> \o p \o <<"'">>

JsonOptional(key, v) == IF v = "undefined" THEN <<>> ELSE <<key, v>>

(* A serialization that leaves the hardlink property out *)
JsonStringifyNoHardlink(op) ==
  <<"{", "sourcePath">> \o JsonString(op.sourcePath)
    \o <<"includeGlobs", op.includeGlobs>>
    \o <<"destinationFolders", "[">>
    \o Concat([i \in DOMAIN op.destinationFolders |-> JsonString(op.destinationFolders[i])])
    \o <<"]">>
    \o JsonOptional("flatten", op.flatten)
    \o <<"}">>

JsonStringify(op) ==
  <<"{", "sourcePath">> \o JsonString(op.sourcePath)
    \o <<"includeGlobs", op.includeGlobs>>
    \o <<"destinationFolders", "[">>
    \o Concat([i \in DOMAIN op.destinationFolders |-> JsonString(op.destinationFolders[i])])
    \o <<"]">>
    \o JsonOptional("flatten", op.flatten)
    \o JsonOptional("hardlink", op.hardlink)
    \o <<"}">>

ConfigHash(copyOperations) ==
  <<"sha256">> \o Concat([i \in DOMAIN copyOperations |-> JsonStringify(copyOperations[i])])

(* A digest taken before update was called does not depend on the content *)
ContentHashOfNothing(c) == <<"sha256", 0>>

(* createHash('sha256').update(fileContent).digest('base64') *)
ContentHash(c) == <<"sha256", c>>

----------------------------------------------------------------------------
(* The build info file *)

NoBuildInfo == [present |-> FALSE, configHash |-> <<>>, inputFileVersions |-> <<>>]

BuildInfo(h, versions) == [present |-> TRUE, configHash |-> h, inputFileVersions |-> versions]

(* Map.get and Map.set on a Map<path, hash> kept as a function; <<>> stands *)
(* for undefined *)
MapGet(m, k) == IF k \in DOMAIN m THEN m[k] ELSE <<>>

(* A map that holds the last entry set and nothing else *)
MapSetOnly(m, k, v) == [x \in {k} |-> v]

MapSet(m, k, v) == [x \in (DOMAIN m) \cup {k} |-> IF x = k THEN v ELSE m[x]]

----------------------------------------------------------------------------
(* Async.forEachAsync(items, callback, { concurrency: maxParallelism }):     *)
(* callbacks are started in iteration order while fewer than concurrency are *)
(* in flight and none has rejected; the returned promise rejects with the    *)
(* first rejection and resolves when every callback has resolved.  A state   *)
(* is one of queued, running, done, threw per item.                          *)

InFlight(st) == {i \in DOMAIN st : st[i] = "running"}

Rejected(st) == \E i \in DOMAIN st : st[i] = "threw"

(* A scheduler without a bound on the callbacks in flight *)
MayStartUnbounded(st, i) ==
  /\ i \in DOMAIN st
  /\ st[i] = "queued"
  /\ \A j \in DOMAIN st : j < i => st[j] # "queued"
  /\ ~Rejected(st)

(* A scheduler that goes on starting callbacks after a rejection *)
MayStartAfterRejection(st, i) ==
  /\ i \in DOMAIN st
  /\ st[i] = "queued"
  /\ \A j \in DOMAIN st : j < i => st[j] # "queued"
  /\ Cardinality(InFlight(st)) < maxParallelism

MayStart(st, i) ==
  /\ i \in DOMAIN st
  /\ st[i] = "queued"
  /\ \A j \in DOMAIN st : j < i => st[j] # "queued"
  /\ Cardinality(InFlight(st)) < maxParallelism
  /\ ~Rejected(st)

AllResolved(st) == \A i \in DOMAIN st : st[i] = "done"

Drained(st) == InFlight(st) = {}

Queue(n) == [i \in 1..n |-> "queued"]

----------------------------------------------------------------------------
(* The copy operations a run is given *)

Flags == {"undefined", "false", "true"}

(* Every configuration of up to MaxOps operations: the resolver's inputs *)
AllOperations ==
  {CopyOperation(g, f, fl, hl) :
     g \in {"*", "**/*"}, f \in {<<OutD>>, <<OutD, OutE>>},
     fl \in {"undefined", "true"}, hl \in Flags}

AllConfigs == UNION {[1..n -> AllOperations] : n \in 0..MaxOps}

(* The configurations the runs of the engine are given *)
RunConfigs ==
  { <<CopyOperation("**/*", <<OutD>>, "undefined", "undefined"),
      CopyOperation("*", <<OutD, OutE>>, "undefined", "undefined")>>,
    <<CopyOperation("**/*", <<OutD>>, "undefined", "true"),
      CopyOperation("*", <<OutE>>, "undefined", "undefined")>>,
    <<CopyOperation("*", <<OutD>>, "true", "undefined"),
      CopyOperation("**/*", <<OutD>>, "undefined", "true")>> }

----------------------------------------------------------------------------
(* _getCopyDescriptorsAsync: the body of one callback after its await *)

CopyDescriptor(source, destination, hardlink) ==
  [sourcePath |-> source, destinationPath |-> destination, hardlink |-> hardlink]

(* A destination path that never drops the relative folders *)
ResolvedDestinationPathRelative(op, destinationFolderPath, sourceFilePath) ==
  resolve(destinationFolderPath, relative(op.sourcePath, sourceFilePath))

ResolvedDestinationPath(op, destinationFolderPath, sourceFilePath) ==
  resolve(destinationFolderPath,
          IF Truthy(op.flatten)
            THEN basename(sourceFilePath)
            ELSE relative(op.sourcePath, sourceFilePath))

(* A lookup that finds nothing *)
DescriptorAtNothing(map, path) == {}

(* copyDescriptorByDestination.get(path): the set holding the descriptor, or {} *)
DescriptorAt(map, path) == {d \in Range(map) : d.destinationPath = path}

(* A comparison that leaves the hardlink flag out *)
IsDuplicateSourceOnly(existing, sourceFilePath, op) ==
  existing.sourcePath = sourceFilePath

IsDuplicate(existing, sourceFilePath, op) ==
  /\ existing.sourcePath = sourceFilePath
  /\ existing.hardlink = Truthy(op.hardlink)

(* A loop body that adds the descriptor without looking at the map *)
AddDescriptorAlways(acc, op, destinationFolderPath, sourceFilePath) ==
  [acc EXCEPT !.map =
     Append(@, CopyDescriptor(sourceFilePath,
                              ResolvedDestinationPath(op, destinationFolderPath, sourceFilePath),
                              Truthy(op.hardlink)))]

(* One pass of the inner loop body.  acc is [map, error]: error is the path *)
(* the throw names, <<>> while nothing was thrown.                          *)
AddDescriptor(acc, op, destinationFolderPath, sourceFilePath) ==
  LET path == ResolvedDestinationPath(op, destinationFolderPath, sourceFilePath)
      found == DescriptorAt(acc.map, path)
  IN  IF acc.error # <<>> THEN acc
      ELSE IF found # {}
        THEN IF IsDuplicate(CHOOSE d \in found : TRUE, sourceFilePath, op)
               THEN acc
               ELSE [acc EXCEPT !.error = path]
        ELSE [acc EXCEPT !.map =
                Append(@, CopyDescriptor(sourceFilePath, path, Truthy(op.hardlink)))]

(* The two nested loops: destination folders outside, source files inside *)
RECURSIVE AddFiles(_, _, _, _)
AddFiles(acc, op, destinationFolderPath, sourceFiles) ==
  IF sourceFiles = <<>> THEN acc
  ELSE AddFiles(AddDescriptor(acc, op, destinationFolderPath, Head(sourceFiles)),
                op, destinationFolderPath, Tail(sourceFiles))

RECURSIVE AddFolders(_, _, _, _)
AddFolders(acc, op, folders, sourceFiles) ==
  IF folders = <<>> THEN acc
  ELSE AddFolders(AddFiles(acc, op, Head(folders), sourceFiles),
                  op, Tail(folders), sourceFiles)

AddOperation(map, op, sourceFiles) ==
  AddFolders([map |-> map, error |-> <<>>], op, op.destinationFolders, sourceFiles)

----------------------------------------------------------------------------
(* _copyFilesInnerAsync: the pure parts *)

(* A build info file that does not hold a serialized build info *)
CorruptBuildInfo ==
  [present |-> TRUE, configHash |-> <<"not JSON">>, inputFileVersions |-> <<>>]

(* A read that rejects when the file cannot be parsed *)
BuildInfoReadRejectsCorrupt(file) == file = CorruptBuildInfo

(* tryReadBuildInfoAsync: it does not reject, whatever the file holds, and *)
(* resolves to undefined for a file that is missing or cannot be parsed    *)
BuildInfoReadRejects(file) == FALSE

tryReadBuildInfo(file) == IF file = CorruptBuildInfo THEN NoBuildInfo ELSE file

(* tryReadBuildInfoAsync followed by the configHash test *)
UsableBuildInfo(file, hash) ==
  LET read == tryReadBuildInfo(file)
  IN  IF read.present /\ read.configHash # hash THEN NoBuildInfo ELSE read

(* The distinct source paths of the descriptors, in insertion order *)
RECURSIVE Distinct(_)
Distinct(s) ==
  IF s = <<>> THEN <<>>
  ELSE LET front == Distinct(SubSeq(s, 1, Len(s) - 1))
           x == s[Len(s)]
       IN  IF x \in Range(front) THEN front ELSE Append(front, x)

(* A set of input files that holds the source of the first descriptor only *)
InputFilesOfFirst(map) == <<map[1].sourcePath>>

InputFilesOf(map) == Distinct([i \in DOMAIN map |-> map[i].sourcePath])

MissingHash(map, versions) ==
  \E d \in Range(map) : MapGet(versions, d.sourcePath) = <<>>

(* A test that looks the hash up under the wrong key finds nothing *)
UpToDateWrongKey(old, sourcePath, sourceFileHash) ==
  old.present /\ MapGet(old.inputFileVersions, SourceFolder) = sourceFileHash

UpToDate(old, sourcePath, sourceFileHash) ==
  old.present /\ MapGet(old.inputFileVersions, sourcePath) = sourceFileHash

(* A work list that holds every descriptor *)
DescriptorsWithWorkAll(map, old, versions) == map

DescriptorsWithWork(map, old, versions) ==
  LET stale(d) == ~UpToDate(old, d.sourcePath, MapGet(versions, d.sourcePath))
  IN  SelectSeq(map, stale)

Line(kind, copied, linked) == [kind |-> kind, copied |-> copied, linked |-> linked]

(* The record of the previous run when it failed, or there was none *)
NoRun(why) == [result |-> why, ops |-> <<>>, files |-> [f \in SourceFiles |-> 0]]

NoIo == [snapRead |-> FALSE, hashed |-> {}, transfers |-> {}, snapWritten |-> FALSE]

(* The parameters of a run of BaseInstallAction before the command line is *)
(* parsed                                                                  *)
NoArgs == [actionName |-> "install", purge |-> FALSE, networkConcurrency |-> 0,
           packageManager |-> "pnpm", maxInstallAttempts |-> 1,
           subspacesFeatureEnabled |-> FALSE, selection |-> "all",
           preventSelectingAllSubspaces |-> FALSE, subspaces |-> 0,
           scriptsRefreshed |-> FALSE]

(* let selectedSubspaces: Set<Subspace> | undefined, before it is assigned *)
NoSubspaces == [defined |-> FALSE, items |-> <<>>]

----------------------------------------------------------------------------
(* The state before the first run *)

Init ==
  /\ files = [f \in SourceFiles |-> 1]
  /\ dest = [p \in DestPaths |-> 0]
  /\ snapshot = NoBuildInfo
  /\ result = "none"
  /\ phase = "idle"
  /\ ops = <<>>
  /\ configHash = <<>>
  /\ opState = <<>>
  /\ opError = <<>>
  /\ copyDescriptorByDestination = <<>>
  /\ conflictPath = <<>>
  /\ oldBuildInfo = NoBuildInfo
  /\ allInputFiles = <<>>
  /\ hashState = <<>>
  /\ inputFileVersions = <<>>
  /\ copyDescriptorsWithWork = <<>>
  /\ xferState = <<>>
  /\ copiedFileCount = 0
  /\ linkedFileCount = 0
  /\ terminal = <<>>
  /\ io = NoIo
  /\ snapAtStart = NoBuildInfo
  /\ last = NoRun("none")
  /\ snapTouched = FALSE
  /\ runs = 0
  /\ pc = "idle"
  /\ args = NoArgs
  /\ selectedSubspaces = NoSubspaces
  /\ warnAboutScriptUpdate = FALSE
  /\ installSuccessful = TRUE
  /\ installed = 0
  /\ thrown = "none"
  /\ events = <<>>

(* copyFilesAsync is called: the configHash is computed and the resolution of *)
(* the operations is handed to Async.forEachAsync                             *)
Begin(copyOperations) ==
  /\ phase = "idle"
  /\ runs < MaxRuns
  /\ runs' = runs + 1
  /\ result' = "running"
  /\ phase' = "resolve"
  /\ ops' = copyOperations
  /\ configHash' = ConfigHash(copyOperations)
  /\ opState' = Queue(Len(copyOperations))
  /\ opError' = [i \in 1..Len(copyOperations) |-> <<>>]
  /\ snapAtStart' = snapshot
  /\ UNCHANGED <<envVars, copyDescriptorByDestination, conflictPath, hashVars, xferVars,
                 terminal, io, last, snapTouched>>
  /\ UNCHANGED installVars

StartRun == phase = "idle" /\ \E copyOperations \in RunConfigs : Begin(copyOperations)

(* forEachAsync starts the callback of operation i, which awaits the file *)
(* enumeration                                                            *)
BeginEnumerate(i) ==
  /\ phase = "resolve"
  /\ MayStart(opState, i)
  /\ opState' = [opState EXCEPT ![i] = "running"]
  /\ UNCHANGED <<envVars, result, phase, ops, configHash, opError,
                 copyDescriptorByDestination, conflictPath, hashVars, xferVars,
                 terminal, io, histVars>>
  /\ UNCHANGED installVars

(* The enumeration of operation i resolves and the callback runs to its end: *)
(* it adds its descriptors, or throws at the first conflicting destination   *)
FinishEnumerate(i) ==
  /\ phase = "resolve"
  /\ i \in DOMAIN opState
  /\ opState[i] = "running"
  /\ LET acc == AddOperation(copyDescriptorByDestination, ops[i],
                             getFileSelectionSpecifierPaths(ops[i], files))
     IN  /\ copyDescriptorByDestination' = acc.map
         /\ opState' = [opState EXCEPT ![i] = IF acc.error = <<>> THEN "done" ELSE "threw"]
         /\ opError' = [opError EXCEPT ![i] = acc.error]
         /\ result' = IF acc.error # <<>> /\ result = "running" THEN "conflict" ELSE result
         /\ conflictPath' = IF acc.error # <<>> /\ result = "running"
                              THEN acc.error ELSE conflictPath
  /\ UNCHANGED <<envVars, phase, ops, configHash, hashVars, xferVars,
                 terminal, io, histVars>>
  /\ UNCHANGED installVars

(* The test of the early return of _copyFilesInnerAsync, without which the *)
(* function goes on with an empty map                                     *)
NoDescriptorsIgnored(copyDescriptors) == FALSE

(* copyDescriptors.size === 0 *)
NoDescriptors(copyDescriptors) == Len(copyDescriptors) = 0

(* await _getCopyDescriptorsAsync(...) lets copyFilesAsync go on: it was not *)
(* rejected and every callback has resolved                                 *)
ResolutionSettled == \A i \in DOMAIN opState : opState[i] \in {"done", "threw"}

ResolutionNotAwaited == result = "running"

ResolutionAwaited == result = "running" /\ AllResolved(opState)

(* _getCopyDescriptorsAsync resolved; _copyFilesInnerAsync up to the start of *)
(* hashing: the early return on no descriptors, the read of the build info    *)
(* file, the configHash test and the collection of the input files            *)
ResolveDone ==
  /\ phase = "resolve"
  /\ ResolutionAwaited
  /\ IF NoDescriptors(copyDescriptorByDestination)
       THEN /\ result' = "ok"
            /\ UNCHANGED <<phase, hashVars, terminal, io>>
       ELSE IF BuildInfoReadRejects(snapshot)
         THEN /\ result' = "buildInfoError"
              /\ io' = [io EXCEPT !.snapRead = TRUE]
              /\ UNCHANGED <<phase, hashVars, terminal>>
         ELSE /\ oldBuildInfo' = UsableBuildInfo(snapshot, configHash)
              /\ terminal' = IF /\ tryReadBuildInfo(snapshot).present
                                /\ tryReadBuildInfo(snapshot).configHash # configHash
                               THEN Append(terminal, Line("configChanged", 0, 0))
                               ELSE terminal
              /\ allInputFiles' = InputFilesOf(copyDescriptorByDestination)
              /\ hashState' = Queue(Len(InputFilesOf(copyDescriptorByDestination)))
              /\ inputFileVersions' = <<>>
              /\ io' = [io EXCEPT !.snapRead = TRUE]
              /\ phase' = "hash"
              /\ UNCHANGED result
  /\ UNCHANGED <<envVars, ops, configHash, resolveVars, xferVars, histVars>>
  /\ UNCHANGED installVars

(* forEachAsync starts the callback of input file i, which awaits the read *)
BeginHash(i) ==
  /\ phase = "hash"
  /\ MayStart(hashState, i)
  /\ hashState' = [hashState EXCEPT ![i] = "running"]
  /\ io' = [io EXCEPT !.hashed = @ \cup {allInputFiles[i]}]
  /\ UNCHANGED <<envVars, result, phase, ops, configHash, resolveVars,
                 oldBuildInfo, allInputFiles, inputFileVersions, xferVars, terminal,
                 histVars>>
  /\ UNCHANGED installVars

(* The read of input file i resolves and its hash is recorded *)
FinishHash(i) ==
  /\ phase = "hash"
  /\ i \in DOMAIN hashState
  /\ hashState[i] = "running"
  /\ hashState' = [hashState EXCEPT ![i] = "done"]
  /\ inputFileVersions' =
       MapSet(inputFileVersions, allInputFiles[i], ContentHash(files[allInputFiles[i]]))
  /\ UNCHANGED <<envVars, result, phase, ops, configHash, resolveVars, oldBuildInfo,
                 allInputFiles, xferVars, terminal, io, histVars>>
  /\ UNCHANGED installVars

(* The read of input file i throws (the file is gone or cannot be read): *)
(* forEachAsync rejects, and so does copyFilesAsync                       *)
ReadFails(i) ==
  /\ phase = "hash"
  /\ i \in DOMAIN hashState
  /\ hashState[i] = "running"
  /\ hashState' = [hashState EXCEPT ![i] = "threw"]
  /\ result' = IF result = "running" THEN "sourceError" ELSE result
  /\ UNCHANGED <<envVars, phase, ops, configHash, resolveVars, oldBuildInfo,
                 allInputFiles, inputFileVersions, xferVars, terminal, io, histVars>>
  /\ UNCHANGED installVars

(* await Async.forEachAsync(allInputFiles, ...) lets the run go on *)
HashingSettled == \A i \in DOMAIN hashState : hashState[i] \in {"done", "threw"}

HashingAwaited == result = "running" /\ AllResolved(hashState)

(* Every input file is hashed: the descriptors with work are collected; with *)
(* none the run reports that and returns                                     *)
HashDone ==
  /\ phase = "hash"
  /\ HashingAwaited
  /\ IF MissingHash(copyDescriptorByDestination, inputFileVersions)
       THEN /\ result' = "missingHash"
            /\ UNCHANGED <<phase, xferVars, terminal>>
       ELSE LET work == DescriptorsWithWork(copyDescriptorByDestination, oldBuildInfo,
                                            inputFileVersions)
            IN  IF Len(work) = 0
                  THEN /\ terminal' = Append(terminal, Line("upToDate", 0, 0))
                       /\ result' = "ok"
                       /\ UNCHANGED <<phase, xferVars>>
                  ELSE /\ copyDescriptorsWithWork' = work
                       /\ xferState' = Queue(Len(work))
                       /\ copiedFileCount' = 0
                       /\ linkedFileCount' = 0
                       /\ phase' = "transfer"
                       /\ UNCHANGED <<result, terminal>>
  /\ UNCHANGED <<envVars, ops, configHash, resolveVars, hashVars, io, histVars>>
  /\ UNCHANGED installVars

(* forEachAsync starts the callback of descriptor i: it counts the file and *)
(* awaits the hard link or the copy                                         *)
BeginTransfer(i) ==
  /\ phase = "transfer"
  /\ MayStart(xferState, i)
  /\ xferState' = [xferState EXCEPT ![i] = "running"]
  /\ linkedFileCount' = linkedFileCount + (IF copyDescriptorsWithWork[i].hardlink THEN 1 ELSE 0)
  /\ copiedFileCount' = copiedFileCount + (IF copyDescriptorsWithWork[i].hardlink THEN 0 ELSE 1)
  /\ io' = [io EXCEPT !.transfers = @ \cup {copyDescriptorsWithWork[i].destinationPath}]
  /\ UNCHANGED <<envVars, result, phase, ops, configHash, resolveVars, hashVars,
                 copyDescriptorsWithWork, terminal, histVars>>
  /\ UNCHANGED installVars

(* The hard link or copy of descriptor i resolves: the destination holds the *)
(* source's content                                                          *)
FinishTransfer(i) ==
  /\ phase = "transfer"
  /\ i \in DOMAIN xferState
  /\ xferState[i] = "running"
  /\ xferState' = [xferState EXCEPT ![i] = "done"]
  /\ dest' = [dest EXCEPT ![copyDescriptorsWithWork[i].destinationPath] =
                 files[copyDescriptorsWithWork[i].sourcePath]]
  /\ UNCHANGED <<files, snapshot, result, phase, ops, configHash, resolveVars, hashVars,
                 copyDescriptorsWithWork, copiedFileCount, linkedFileCount, terminal, io,
                 histVars>>
  /\ UNCHANGED installVars

(* The hard link or copy of descriptor i throws: forEachAsync rejects, and so *)
(* does copyFilesAsync                                                        *)
TransferFails(i) ==
  /\ phase = "transfer"
  /\ i \in DOMAIN xferState
  /\ xferState[i] = "running"
  /\ xferState' = [xferState EXCEPT ![i] = "threw"]
  /\ result' = IF result = "running" THEN "transferError" ELSE result
  /\ UNCHANGED <<envVars, phase, ops, configHash, resolveVars, hashVars,
                 copyDescriptorsWithWork, copiedFileCount, linkedFileCount, terminal, io,
                 histVars>>
  /\ UNCHANGED installVars

(* await Async.forEachAsync(copyDescriptorsWithWork, ...) lets the run go on *)
TransfersSettled == \A i \in DOMAIN xferState : xferState[i] \in {"done", "threw"}

TransfersNotAwaited == result = "running"

TransfersAwaited == result = "running" /\ AllResolved(xferState)

(* A build info that keeps the entries of the one read *)
MergedBuildInfo(hash, versions, old) ==
  BuildInfo(hash, [f \in DOMAIN versions \cup DOMAIN old.inputFileVersions |->
                     IF f \in DOMAIN versions THEN versions[f] ELSE old.inputFileVersions[f]])

(* The buildInfo object: the configHash and the inputFileVersions map the *)
(* hashing fills; nothing of the build info that was read goes into it    *)
NewBuildInfo(hash, versions, old) == BuildInfo(hash, versions)

(* Every transfer resolved: the summary line, then writeBuildInfoAsync *)
TransferDone ==
  /\ phase = "transfer"
  /\ TransfersAwaited
  /\ terminal' = Append(terminal, Line("summary", copiedFileCount, linkedFileCount))
  /\ snapshot' = NewBuildInfo(configHash, inputFileVersions, oldBuildInfo)
  /\ io' = [io EXCEPT !.snapWritten = TRUE]
  /\ result' = "ok"
  /\ UNCHANGED <<files, dest, phase, ops, configHash, resolveVars, hashVars,
                 xferVars, histVars>>
  /\ UNCHANGED installVars

(* The promise of copyFilesAsync has settled and nothing is in flight any *)
(* more: the caller goes on, and may change files or run again            *)
Return ==
  /\ result \notin {"none", "running"}
  /\ phase # "idle"
  /\ Drained(opState) /\ Drained(hashState) /\ Drained(xferState)
  /\ last' = IF result = "ok"
               THEN [result |-> "ok", ops |-> ops, files |-> files]
               ELSE NoRun("failed")
  /\ snapTouched' = FALSE
  /\ phase' = "idle"
  /\ ops' = <<>>
  /\ configHash' = <<>>
  /\ opState' = <<>>
  /\ opError' = <<>>
  /\ copyDescriptorByDestination' = <<>>
  /\ conflictPath' = <<>>
  /\ oldBuildInfo' = NoBuildInfo
  /\ allInputFiles' = <<>>
  /\ hashState' = <<>>
  /\ inputFileVersions' = <<>>
  /\ copyDescriptorsWithWork' = <<>>
  /\ xferState' = <<>>
  /\ copiedFileCount' = 0
  /\ linkedFileCount' = 0
  /\ terminal' = <<>>
  /\ io' = NoIo
  /\ snapAtStart' = NoBuildInfo
  /\ UNCHANGED <<envVars, result, runs>>
  /\ UNCHANGED installVars

----------------------------------------------------------------------------
(* What happens to the files between two runs *)

runVars == <<result, phase, ops, configHash, resolveVars, hashVars, xferVars,
             terminal, io>>

(* A source file is written, created or deleted *)
EditSource(f, c) ==
  /\ phase = "idle"
  /\ runs < MaxRuns
  /\ files[f] # c
  /\ files' = [files EXCEPT ![f] = c]
  /\ UNCHANGED <<dest, snapshot, runVars, histVars>>
  /\ UNCHANGED installVars

(* The build info file is deleted *)
RemoveSnapshot ==
  /\ phase = "idle"
  /\ runs < MaxRuns
  /\ snapshot.present
  /\ snapshot' = NoBuildInfo
  /\ snapTouched' = TRUE
  /\ UNCHANGED <<files, dest, runVars, snapAtStart, last, runs>>
  /\ UNCHANGED installVars

(* The build info file is overwritten with something that is not one *)
CorruptSnapshot ==
  /\ phase = "idle"
  /\ runs < MaxRuns
  /\ snapshot # CorruptBuildInfo
  /\ snapshot' = CorruptBuildInfo
  /\ snapTouched' = TRUE
  /\ UNCHANGED <<files, dest, runVars, snapAtStart, last, runs>>
  /\ UNCHANGED installVars

(* A destination file is deleted or overwritten from outside *)
TamperDestination(p, c) ==
  /\ phase = "idle"
  /\ runs < MaxRuns
  /\ dest[p] # c
  /\ dest' = [dest EXCEPT ![p] = c]
  /\ UNCHANGED <<files, snapshot, runVars, histVars>>
  /\ UNCHANGED installVars

----------------------------------------------------------------------------

(* The steps of a run *)
Engine ==
  \/ StartRun
  \/ \E i \in 1..MaxOps : BeginEnumerate(i) \/ FinishEnumerate(i)
  \/ ResolveDone
  \/ \E i \in 1..Cardinality(SourceFiles) : BeginHash(i) \/ FinishHash(i)
  \/ HashDone
  \/ \E i \in 1..Cardinality(DestPaths) : BeginTransfer(i) \/ FinishTransfer(i)
  \/ TransferDone
  \/ Return

Next ==
  \/ Engine
  \/ \E f \in SourceFiles, c \in {0} \cup Contents : EditSource(f, c)
  \/ RemoveSnapshot

Spec == Init /\ [][Next]_vars

(* The resolution of any configuration of up to MaxOps operations *)
StartResolve == phase = "idle" /\ \E copyOperations \in AllConfigs : Begin(copyOperations)

NextResolve ==
  \/ StartResolve
  \/ \E i \in 1..MaxOps : BeginEnumerate(i) \/ FinishEnumerate(i)
  \/ ResolveDone

SpecResolve == Init /\ [][NextResolve]_vars

(* The resolution of any single operation over any tree of source files *)
StartOperation == phase = "idle" /\ \E op \in AllOperations : Begin(<<op>>)

NextOperation ==
  \/ StartOperation
  \/ \E i \in 1..MaxOps : BeginEnumerate(i) \/ FinishEnumerate(i)
  \/ ResolveDone
  \/ \E f \in SourceFiles, c \in {0, 1} : EditSource(f, c)

SpecOperation == Init /\ [][NextOperation]_vars

(* The runs with file system calls that may fail.  Between these runs      *)
(* a.txt is written, created or deleted and sub/a.txt is created or deleted *)
NextFaults ==
  \/ Engine
  \/ \E i \in 1..Cardinality(SourceFiles) : ReadFails(i)
  \/ \E i \in 1..Cardinality(DestPaths) : TransferFails(i)
  \/ \E f \in SourceFiles :
       \E c \in {0} \cup (IF f = FileA THEN Contents ELSE {1}) : EditSource(f, c)
  \/ RemoveSnapshot

SpecFaults == Init /\ [][NextFaults]_vars

(* The runs with file system calls that may fail, while nothing but the *)
(* runs writes the destinations or the build info file                  *)
NextUntouched ==
  \/ Engine
  \/ \E i \in 1..Cardinality(SourceFiles) : ReadFails(i)
  \/ \E i \in 1..Cardinality(DestPaths) : TransferFails(i)
  \/ \E f \in SourceFiles :
       \E c \in {0} \cup (IF f = FileA THEN Contents ELSE {1}) : EditSource(f, c)

SpecUntouched == Init /\ [][NextUntouched]_vars

(* The runs with a build info file that is deleted or corrupted between *)
(* them, over source files that are created and deleted                 *)
NextSnapshot ==
  \/ Engine
  \/ \E f \in SourceFiles, c \in {0, 1} : EditSource(f, c)
  \/ RemoveSnapshot
  \/ CorruptSnapshot

SpecSnapshot == Init /\ [][NextSnapshot]_vars

(* The runs with destinations that are deleted or overwritten from outside *)
(* between them, while a.txt is rewritten                                  *)
NextTamper ==
  \/ Engine
  \/ \E c \in Contents : EditSource(FileA, c)
  \/ \E p \in DestPaths, c \in {0} \cup Contents : TamperDestination(p, c)

SpecTamper == Init /\ [][NextTamper]_vars

----------------------------------------------------------------------------
(* BaseInstallAction.runAsync.  One step is what the function does between *)
(* two awaits; events records, in order, the calls the run made.           *)

Event(name, detail) == [name |-> name, detail |-> detail]

(* The parameters and configurations a run can meet.  networkConcurrency 0 *)
(* stands for a parameter that was not given; subspaces is the number of   *)
(* subspaces the selection reaches                                         *)
InstallArgs ==
  { a \in [actionName : {"install", "update"},
           purge : BOOLEAN,
           networkConcurrency : {0, 4},
           packageManager : {"pnpm", "npm"},
           maxInstallAttempts : {0, 1},
           subspacesFeatureEnabled : BOOLEAN,
           selection : {"filtered", "subspace", "all"},
           preventSelectingAllSubspaces : BOOLEAN,
           subspaces : 0..MaxSubspaces,
           scriptsRefreshed : BOOLEAN] :
      /\ a.selection = "subspace" => a.subspaces = 1
      /\ a.selection = "all" => a.subspaces >= 1
      /\ a.actionName = "install" => ~a.scriptsRefreshed }

Subspaces(n) == [defined |-> TRUE, items |-> [i \in 1..n |-> i]]

(* The selection of all subspaces is refused *)
SelectionRefused(a) ==
  /\ a.subspacesFeatureEnabled
  /\ a.selection = "all"
  /\ a.preventSelectingAllSubspaces

(* let selectedSubspaces, as the run leaves it before the version checks *)
SelectedSubspaces(a) ==
  IF a.subspacesFeatureEnabled THEN Subspaces(a.subspaces) ELSE NoSubspaces

(* The two tests of the parameters that throw *)
ParametersRejected(a) ==
  \/ a.networkConcurrency # 0 /\ a.packageManager # "pnpm"
  \/ a.maxInstallAttempts < 1

(* The calls of _doInstall the try block is to make *)
InstallCalls(selected) == IF selected.defined THEN Len(selected.items) ELSE 1

(* The subspace the call number k installs (0: the call without a subspace) *)
InstallTarget(selected, k) == IF selected.defined THEN selected.items[k] ELSE 0

(* The finally block up to its await: purgeManager.startDeleteAllAsync() *)
EnterFinally(log) == Append(log, Event("startDeleteAllAsync", 0))

(* The try block goes on after k calls have resolved: the next call of *)
(* _doInstall, or the finally block                                    *)
Proceed(k, log) ==
  IF k < InstallCalls(selectedSubspaces)
    THEN /\ pc' = "doInstall"
         /\ events' = Append(log, Event("doInstall", InstallTarget(selectedSubspaces, k + 1)))
    ELSE /\ pc' = "finally"
         /\ events' = EnterFinally(log)

(* runAsync is called and awaits buildInstallOptionsAsync *)
StartInstall ==
  /\ pc = "idle"
  /\ \E a \in InstallArgs : args' = a
  /\ pc' = "select"
  /\ UNCHANGED <<selectedSubspaces, warnAboutScriptUpdate, installSuccessful,
                 installed, thrown, events>>
  /\ UNCHANGED copyVars

(* The subspaces are selected and checked for consistent versions, the   *)
(* setup is validated, and the run awaits StandardScriptUpdater          *)
SelectSubspaces ==
  /\ pc = "select"
  /\ IF SelectionRefused(args)
       THEN /\ thrown' = "AlreadyReportedError"
            /\ pc' = "rejected"
            /\ UNCHANGED <<selectedSubspaces, events>>
       ELSE /\ selectedSubspaces' = SelectedSubspaces(args)
            /\ events' = Append(events, Event("ensureConsistentVersions", 0))
            /\ pc' = "scripts"
            /\ UNCHANGED thrown
  /\ UNCHANGED <<args, warnAboutScriptUpdate, installSuccessful, installed>>
  /\ UNCHANGED copyVars

(* The scripts were updated or validated: the preRushInstall hook, the   *)
(* purge, the tests of the parameters, and the await of the import of    *)
(* InstallManagerFactory                                                 *)
PrepareInstall ==
  /\ pc = "scripts"
  /\ warnAboutScriptUpdate' = (args.actionName = "update" /\ args.scriptsRefreshed)
  /\ LET hooked == Append(events, Event("preRushInstall", 0))
         purged == IF args.purge THEN Append(hooked, Event("purgeNormal", 0)) ELSE hooked
     IN  /\ events' = purged
         /\ IF ParametersRejected(args)
              THEN thrown' = "Error" /\ pc' = "rejected"
              ELSE thrown' = thrown /\ pc' = "import"
  /\ UNCHANGED <<args, selectedSubspaces, installSuccessful, installed>>
  /\ UNCHANGED copyVars

(* The module is there: installSuccessful is set and the try block starts *)
BeginInstall ==
  /\ pc = "import"
  /\ installSuccessful' = TRUE
  /\ Proceed(0, events)
  /\ UNCHANGED <<args, selectedSubspaces, warnAboutScriptUpdate, installed, thrown>>
  /\ UNCHANGED copyVars

(* The awaited _doInstall resolves *)
DoInstallResolves ==
  /\ pc = "doInstall"
  /\ installed' = installed + 1
  /\ Proceed(installed + 1, events)
  /\ UNCHANGED <<args, selectedSubspaces, warnAboutScriptUpdate, installSuccessful, thrown>>
  /\ UNCHANGED copyVars

(* The awaited _doInstall rejects: the catch block, then the finally block *)
DoInstallRejects ==
  /\ pc = "doInstall"
  /\ installSuccessful' = FALSE
  /\ thrown' = "installError"
  /\ pc' = "finally"
  /\ events' = EnterFinally(Append(events, Event("doInstallFailed", 0)))
  /\ UNCHANGED <<args, selectedSubspaces, warnAboutScriptUpdate, installed>>
  /\ UNCHANGED copyVars

(* startDeleteAllAsync resolved: the rest of the finally block, then the *)
(* error is thrown again or the run reports its success and returns      *)
EndInstall ==
  /\ pc = "finally"
  /\ LET told == Append(events, Event("collectTelemetry", IF installSuccessful THEN 1 ELSE 0))
         hooked == Append(Append(told, Event("flushTelemetry", 0)),
                          Event("postRushInstall", 0))
     IN  IF thrown # "none"
           THEN pc' = "rejected" /\ events' = hooked
           ELSE /\ pc' = "resolved"
                /\ events' = Append(hooked, Event("finished", IF warnAboutScriptUpdate THEN 1 ELSE 0))
  /\ UNCHANGED <<args, selectedSubspaces, warnAboutScriptUpdate, installSuccessful,
                 installed, thrown>>
  /\ UNCHANGED copyVars

NextInstall ==
  \/ StartInstall
  \/ SelectSubspaces
  \/ PrepareInstall
  \/ BeginInstall
  \/ DoInstallResolves
  \/ DoInstallRejects
  \/ EndInstall

SpecInstall == Init /\ [][NextInstall]_vars

----------------------------------------------------------------------------
(* Vocabulary of the properties *)

Sources(map) == {d.sourcePath : d \in Range(map)}

(* The source files the operations of a configuration match in a tree *)
Matched(copyOperations, tree) ==
  UNION {Range(getFileSelectionSpecifierPaths(copyOperations[i], tree)) :
           i \in DOMAIN copyOperations}

Reported(kind) == \E k \in DOMAIN terminal : terminal[k].kind = kind

(* The transfer set of the current run is known *)
WorkKnown == phase = "transfer" \/ (phase = "hash" /\ result = "ok")

(* A run is under way or has just ended, and the run before it completed *)
(* without error, with the build info file left alone since              *)
AfterGoodRun == phase # "idle" /\ last.result = "ok" /\ ~snapTouched

SameMatched == Matched(ops, last.files) = Matched(ops, files)

SameContents == \A f \in Matched(ops, files) : last.files[f] = files[f]

Unchanged == AfterGoodRun /\ last.ops = ops /\ SameMatched /\ SameContents

----------------------------------------------------------------------------
(* C1, as stated: a run that follows a successful run with the same        *)
(* operations, the same matched files and the same contents, the build     *)
(* info file untouched in between, transfers nothing, writes nothing and   *)
(* reports that there is nothing to do.                                    *)
C1_AsStated ==
  (Unchanged /\ result = "ok")
    => io.transfers = {} /\ ~io.snapWritten /\ Reported("upToDate")

(* C1, amended: such a run starts no transfer and writes neither a         *)
(* destination nor the build info file at any point; when it completes it  *)
(* has reported "nothing to do" if it resolved at least one descriptor and *)
(* has reported nothing if it resolved none.                               *)
C1_SecondRunIsNoOp ==
  Unchanged
    => /\ io.transfers = {}
       /\ phase # "transfer"
       /\ ~io.snapWritten
       /\ snapshot = snapAtStart
       /\ result = "ok" =>
            terminal = IF Len(copyDescriptorByDestination) = 0
                         THEN <<>> ELSE <<Line("upToDate", 0, 0)>>

C1_Witness ==
  /\ Unchanged
  /\ result = "ok"
  /\ Len(copyDescriptorByDestination) > 1
  /\ snapAtStart.present
  /\ Reported("upToDate")

(* C2: after a successful run with the same operations and the same matched *)
(* files, the transfer set is exactly the descriptors whose source changed  *)
(* content; a descriptor is skipped exactly when the hash of its source is  *)
(* the one the prior build info file records for it.                        *)
C2_ChangeDetection ==
  (AfterGoodRun /\ last.ops = ops /\ SameMatched /\ WorkKnown)
    => /\ Range(copyDescriptorsWithWork) =
            {d \in Range(copyDescriptorByDestination) :
               files[d.sourcePath] # last.files[d.sourcePath]}
       /\ \A d \in Range(copyDescriptorByDestination) :
            d \notin Range(copyDescriptorsWithWork)
              <=> /\ d.sourcePath \in DOMAIN snapAtStart.inputFileVersions
                  /\ snapAtStart.inputFileVersions[d.sourcePath]
                       = ContentHash(files[d.sourcePath])

C2_Witness ==
  /\ AfterGoodRun /\ last.ops = ops /\ SameMatched /\ WorkKnown
  /\ copyDescriptorsWithWork # <<>>
  /\ Len(copyDescriptorsWithWork) < Len(copyDescriptorByDestination)

(* C3, as stated: when a field of an operation was altered since the       *)
(* previous run, the fingerprint differs from that run's, the prior build  *)
(* info is discarded and every descriptor is in the transfer set.          *)
C3_AsStated ==
  (AfterGoodRun /\ last.ops # ops /\ WorkKnown)
    => /\ configHash # ConfigHash(last.ops)
       /\ ~oldBuildInfo.present
       /\ Range(copyDescriptorsWithWork) = Range(copyDescriptorByDestination)

(* C3, amended: replacing any operation of the configuration by a          *)
(* different one changes the fingerprint; a run whose fingerprint differs  *)
(* from the one in the build info file discards it and transfers every     *)
(* descriptor; and that is the case whenever the operations differ from    *)
(* those of a previous run that completed with at least one descriptor.    *)
C3_Invalidation ==
  /\ (phase = "resolve" /\ opState = Queue(Len(ops)))
       => \A k \in DOMAIN ops : \A o \in AllOperations :
            o # ops[k] => ConfigHash([ops EXCEPT ![k] = o]) # configHash
  /\ (AfterGoodRun /\ last.ops # ops) => configHash # ConfigHash(last.ops)
  /\ (WorkKnown /\ snapAtStart.present /\ snapAtStart.configHash # configHash)
       => /\ ~oldBuildInfo.present
          /\ Range(copyDescriptorsWithWork) = Range(copyDescriptorByDestination)
  /\ (AfterGoodRun /\ last.ops # ops /\ Matched(last.ops, last.files) # {} /\ WorkKnown)
       => /\ snapAtStart.present
          /\ snapAtStart.configHash = ConfigHash(last.ops)
          /\ ~oldBuildInfo.present
          /\ Range(copyDescriptorsWithWork) = Range(copyDescriptorByDestination)

C3_Witness ==
  /\ AfterGoodRun /\ last.ops # ops /\ Matched(last.ops, last.files) # {}
  /\ phase = "transfer"
  /\ \A f \in Sources(copyDescriptorByDestination) :
       /\ f \in DOMAIN snapAtStart.inputFileVersions
       /\ snapAtStart.inputFileVersions[f] = inputFileVersions[f]
  /\ Len(copyDescriptorsWithWork) = Len(copyDescriptorByDestination)
  /\ Len(copyDescriptorsWithWork) > 1

----------------------------------------------------------------------------
(* What the operation a callback resolves declares, in the order of its two *)
(* loops, and the first declaration that clashes with an earlier one        *)

Declared(op, sourceFiles) ==
  [n \in 1..(Len(op.destinationFolders) * Len(sourceFiles)) |->
     LET folder == op.destinationFolders[((n - 1) \div Len(sourceFiles)) + 1]
         file == sourceFiles[((n - 1) % Len(sourceFiles)) + 1]
     IN  CopyDescriptor(file, ResolvedDestinationPath(op, folder, file), Truthy(op.hardlink))]

Clash(e, t) ==
  /\ e.destinationPath = t.destinationPath
  /\ e.sourcePath # t.sourcePath \/ e.hardlink # t.hardlink

ClashAt(map, decl, n) ==
  \E e \in Range(map) \cup {decl[m] : m \in 1..(n - 1)} : Clash(e, decl[n])

FirstClash(map, decl) ==
  IF \E n \in DOMAIN decl : ClashAt(map, decl, n)
    THEN CHOOSE n \in DOMAIN decl :
           ClashAt(map, decl, n) /\ \A m \in 1..(n - 1) : ~ClashAt(map, decl, m)
    ELSE 0

(* C4: when the callback of an operation runs, a declaration identical to a *)
(* mapped one changes nothing and raises nothing: without a clash the map   *)
(* gains exactly the new declarations, one entry per destination.  With a   *)
(* clash the callback throws the error naming the first clashing            *)
(* destination, the run is rejected, and by that error when it is the first.*)
C4_Step(i) ==
  LET decl == Declared(ops[i], getFileSelectionSpecifierPaths(ops[i], files))
      n == FirstClash(copyDescriptorByDestination, decl)
  IN  IF n = 0
        THEN /\ opState'[i] = "done"
             /\ opError'[i] = <<>>
             /\ result' = result
             /\ SubSeq(copyDescriptorByDestination', 1, Len(copyDescriptorByDestination))
                  = copyDescriptorByDestination
             /\ Range(copyDescriptorByDestination')
                  = Range(copyDescriptorByDestination) \cup Range(decl)
             /\ Len(copyDescriptorByDestination')
                  = Cardinality({d.destinationPath : d \in Range(copyDescriptorByDestination')})
        ELSE /\ opState'[i] = "threw"
             /\ opError'[i] = decl[n].destinationPath
             /\ result' = "conflict"
             /\ result = "running" => conflictPath' = decl[n].destinationPath

C4_DedupCorrectness ==
  [][\A i \in DOMAIN opState :
       (opState[i] = "running" /\ phase' = "resolve" /\ opState'[i] # "running")
         => C4_Step(i)]_vars

C4_Witness ==
  /\ phase = "resolve"
  /\ Len(ops) = 2
  /\ opState = <<"done", "threw">>
  /\ Len(copyDescriptorByDestination) = 2
  /\ Declared(ops[2], getFileSelectionSpecifierPaths(ops[2], files))[1]
       \in Range(copyDescriptorByDestination)
  /\ opError[2] = conflictPath
  /\ conflictPath # <<>>

----------------------------------------------------------------------------
Failed ==
  /\ phase # "idle"
  /\ result \in {"conflict", "buildInfoError", "sourceError", "transferError", "missingHash"}

(* C5: a run that failed has not written the build info file, which is as  *)
(* it was when the run started; the file is written only in a run whose    *)
(* transfer set is not empty and whose transfers have all resolved.        *)
C5_FailedRunKeepsSnapshot ==
  /\ Failed => ~io.snapWritten /\ snapshot = snapAtStart
  /\ io.snapWritten
       => /\ result = "ok"
          /\ phase = "transfer"
          /\ copyDescriptorsWithWork # <<>>
          /\ AllResolved(xferState)
          /\ DOMAIN xferState = DOMAIN copyDescriptorsWithWork

C5_Witness ==
  /\ result = "transferError"
  /\ phase = "transfer"
  /\ \E i \in DOMAIN xferState : xferState[i] = "done"
  /\ snapAtStart.present
  /\ snapshot = snapAtStart

(* C6: in a run that ended with the conflict error nothing was hashed, no  *)
(* transfer was started and the build info file was neither read nor       *)
(* written, and nothing of it happens afterwards.                          *)
C6_ConflictBeforeIo ==
  (phase # "idle" /\ result = "conflict")
    => /\ io = NoIo
       /\ phase = "resolve"
       /\ snapshot = snapAtStart
       /\ conflictPath # <<>>

C6_Witness ==
  /\ phase # "idle" /\ result = "conflict"
  /\ Len(ops) = 2
  /\ opState = <<"done", "threw">>
  /\ snapAtStart.present

----------------------------------------------------------------------------
(* The build info a completed run is said to leave behind *)
ExactBuildInfo ==
  BuildInfo(ConfigHash(ops),
            [f \in Sources(copyDescriptorByDestination) |-> ContentHash(files[f])])

(* C7, as stated: after every run that completes without error the build  *)
(* info file holds the fingerprint of the run and the hash of exactly the  *)
(* sources of its descriptors.                                             *)
C7_AsStated ==
  (phase # "idle" /\ result = "ok") => snapshot = ExactBuildInfo

(* C7, amended: that holds after a run that completed with transfers.  A   *)
(* run that completes without any leaves the file as it was: after         *)
(* "nothing to do" it holds the fingerprint of the run and the current     *)
(* hash of every source of its descriptors, and maybe more entries.        *)
C7_SnapshotAfterRun ==
  (phase # "idle" /\ result = "ok")
    => IF phase = "transfer"
         THEN snapshot = ExactBuildInfo /\ io.snapWritten
         ELSE /\ snapshot = snapAtStart
              /\ ~io.snapWritten
              /\ phase = "hash" =>
                   /\ snapshot.present
                   /\ snapshot.configHash = ConfigHash(ops)
                   /\ \A f \in Sources(copyDescriptorByDestination) :
                        MapGet(snapshot.inputFileVersions, f) = ContentHash(files[f])

C7_Witness ==
  /\ phase = "transfer" /\ result = "ok"
  /\ snapAtStart.present
  /\ snapAtStart.configHash = configHash
  /\ \E f \in DOMAIN snapAtStart.inputFileVersions :
       f \notin DOMAIN snapshot.inputFileVersions
  /\ snapshot = ExactBuildInfo

----------------------------------------------------------------------------
(* C8: a transfer is started or in flight only when every operation is     *)
(* resolved and every distinct source is hashed, and a read is started or  *)
(* in flight only when every operation is resolved.                        *)
C8_PhasesInSequence ==
  /\ (io.hashed # {} \/ hashState # <<>>)
       => /\ AllResolved(opState)
          /\ allInputFiles = InputFilesOf(copyDescriptorByDestination)
  /\ (io.transfers # {} \/ xferState # <<>>)
       => /\ AllResolved(opState)
          /\ AllResolved(hashState)
          /\ DOMAIN inputFileVersions = Sources(copyDescriptorByDestination)
          /\ copyDescriptorsWithWork =
               DescriptorsWithWork(copyDescriptorByDestination, oldBuildInfo, inputFileVersions)
  /\ InFlight(opState) # {} => phase = "resolve"
  /\ InFlight(hashState) # {} => phase = "hash"
  /\ InFlight(xferState) # {} => phase = "transfer"

C8_Witness ==
  /\ Cardinality(InFlight(xferState)) = 2
  /\ Len(ops) = 2
  /\ Len(allInputFiles) = 2
  /\ \E i \in DOMAIN xferState : xferState[i] = "queued"

----------------------------------------------------------------------------
(* C9: once a transfer has thrown, no queued transfer is started, the run  *)
(* is rejected with the transfer error, no summary line is written and the *)
(* build info file is as it was; the destinations of the transfers that    *)
(* resolved hold what was transferred.                                     *)
C9_State ==
  /\ Rejected(xferState)
       => /\ result = "transferError"
          /\ ~Reported("summary")
          /\ ~io.snapWritten
          /\ snapshot = snapAtStart
  /\ \A i \in DOMAIN xferState :
       xferState[i] = "done"
         => dest[copyDescriptorsWithWork[i].destinationPath]
              = files[copyDescriptorsWithWork[i].sourcePath]
  /\ \A i \in DOMAIN xferState :
       xferState[i] = "queued"
         <=> copyDescriptorsWithWork[i].destinationPath \notin io.transfers

C9_TransferFailureIsFatal ==
  /\ []C9_State
  /\ [][(Rejected(xferState) /\ phase' = "transfer")
          => /\ io'.transfers = io.transfers
             /\ \A i \in DOMAIN xferState :
                  xferState[i] = "queued" => xferState'[i] = "queued"]_vars

C9_Witness ==
  /\ Rejected(xferState)
  /\ \E i \in DOMAIN xferState : xferState[i] = "done"
  /\ \E i \in DOMAIN xferState : xferState[i] = "queued"
  /\ Drained(xferState)

----------------------------------------------------------------------------
(* C10: when the read of a source file throws, the run is rejected with    *)
(* that error in the hashing phase: no transfer is started and the build   *)
(* info file is not written.                                               *)
C10_UnreadableSource ==
  Rejected(hashState)
    => /\ result = "sourceError"
       /\ phase = "hash"
       /\ io.transfers = {}
       /\ xferState = <<>>
       /\ ~io.snapWritten
       /\ snapshot = snapAtStart

C10_Witness ==
  /\ Rejected(hashState)
  /\ Drained(hashState)
  /\ \E i \in DOMAIN hashState : hashState[i] = "done"
  /\ snapAtStart.present

----------------------------------------------------------------------------
(* The run started with a build info file that was missing or corrupt *)
NoPriorBuildInfo == phase # "idle" /\ snapAtStart \in {NoBuildInfo, CorruptBuildInfo}

(* C11, as stated: a run that started with a missing or corrupt build info *)
(* file and completed has put every descriptor in the transfer set and has *)
(* written a fresh build info file.                                        *)
C11_AsStated ==
  (NoPriorBuildInfo /\ result = "ok")
    => /\ Range(copyDescriptorsWithWork) = Range(copyDescriptorByDestination)
       /\ io.snapWritten
       /\ snapshot = ExactBuildInfo

(* C11, amended: the read of the build info file never fails a run; a run  *)
(* that started with a missing or corrupt file reads it as no build info,  *)
(* puts every descriptor in the transfer set and, when it completes having *)
(* resolved at least one descriptor, has written a fresh file; when it     *)
(* resolved none it has written nothing.                                   *)
C11_SnapshotTolerated ==
  /\ result # "buildInfoError"
  /\ NoPriorBuildInfo
       => /\ ~oldBuildInfo.present
          /\ ~Reported("configChanged")
          /\ WorkKnown
               => /\ phase = "transfer"
                  /\ copyDescriptorsWithWork = copyDescriptorByDestination
          /\ result = "ok"
               => IF Len(copyDescriptorByDestination) = 0
                    THEN snapshot = snapAtStart /\ ~io.snapWritten
                    ELSE snapshot = ExactBuildInfo /\ io.snapWritten

C11_Witness ==
  /\ snapAtStart = CorruptBuildInfo
  /\ phase = "transfer"
  /\ result = "ok"
  /\ Len(copyDescriptorsWithWork) > 1
  /\ snapshot = ExactBuildInfo
  /\ last.result = "ok"

----------------------------------------------------------------------------
(* The operations processed one after the other in some order: what they  *)
(* declare, and the outcome of a check-then-insert per declaration        *)

RECURSIVE DeclaredInOrder(_, _, _)
DeclaredInOrder(copyOperations, order, tree) ==
  IF order = <<>> THEN <<>>
  ELSE Declared(copyOperations[Head(order)],
                getFileSelectionSpecifierPaths(copyOperations[Head(order)], tree))
         \o DeclaredInOrder(copyOperations, Tail(order), tree)

Orders(n) == {o \in [1..n -> 1..n] : \A a, b \in 1..n : a # b => o[a] # o[b]}

Sequential(order) ==
  LET decl == DeclaredInOrder(ops, order, files)
      n == FirstClash(<<>>, decl)
  IN  IF n = 0 THEN [map |-> Distinct(decl), error |-> <<>>]
               ELSE [map |-> <<>>, error |-> decl[n].destinationPath]

(* C12: no two entries of the map ever share a destination; when every     *)
(* callback has resolved, the map is the one some sequential order of the  *)
(* operations produces, and every sequential order ends without conflict   *)
(* with the same descriptors; when the run was rejected and its callbacks  *)
(* have ended, every sequential order ends in a conflict and some order in *)
(* the same one.                                                           *)
C12_AtomicResolution ==
  /\ phase = "resolve"
       => \A d, e \in Range(copyDescriptorByDestination) :
            d.destinationPath = e.destinationPath => d = e
  /\ (phase = "resolve" /\ Drained(opState)
        /\ (result = "conflict" \/ (result = "running" /\ AllResolved(opState))))
       => LET outcomes == {Sequential(o) : o \in Orders(Len(ops))}
          IN  /\ result = "running"
                   => /\ [map |-> copyDescriptorByDestination, error |-> <<>>] \in outcomes
                      /\ \A r \in outcomes :
                           /\ r.error = <<>>
                           /\ Range(r.map) = Range(copyDescriptorByDestination)
              /\ result = "conflict"
                   => /\ \E r \in outcomes : r.error = conflictPath
                      /\ \A r \in outcomes : r.error # <<>>

C12_Witness ==
  /\ phase = "resolve"
  /\ Len(ops) = 2
  /\ result = "running" /\ AllResolved(opState)
  /\ copyDescriptorByDestination = Sequential(<<2, 1>>).map
  /\ copyDescriptorByDestination # Sequential(<<1, 2>>).map
  /\ Len(copyDescriptorByDestination) > 2

----------------------------------------------------------------------------
(* The descriptors of the transfer set that are, or are not, hard links *)
WorkBy(hardlink) ==
  {i \in DOMAIN copyDescriptorsWithWork : copyDescriptorsWithWork[i].hardlink = hardlink}

Started(st) == {i \in DOMAIN st : st[i] # "queued"}

(* C13: in whatever order the reads and the transfers resolve, the hashes  *)
(* recorded are those of the files read so far, the counts are the numbers *)
(* of copies and of hard links started so far, and a run that completes    *)
(* has reported the numbers of copy and of hard link descriptors of the    *)
(* transfer set and has written the hash of every source.                  *)
C13_OrderIndependent ==
  /\ phase \in {"hash", "transfer"}
       => inputFileVersions =
            [f \in {allInputFiles[i] : i \in {j \in DOMAIN hashState : hashState[j] = "done"}}
               |-> ContentHash(files[f])]
  /\ phase = "transfer"
       => /\ copiedFileCount = Cardinality(WorkBy(FALSE) \cap Started(xferState))
          /\ linkedFileCount = Cardinality(WorkBy(TRUE) \cap Started(xferState))
  /\ (phase = "transfer" /\ result = "ok")
       => /\ terminal[Len(terminal)] =
               Line("summary", Cardinality(WorkBy(FALSE)), Cardinality(WorkBy(TRUE)))
          /\ snapshot.inputFileVersions =
               [f \in Sources(copyDescriptorByDestination) |-> ContentHash(files[f])]

C13_Witness ==
  /\ phase = "transfer" /\ result = "ok"
  /\ copiedFileCount = 1
  /\ linkedFileCount = 2
  /\ Len(allInputFiles) = 2
  /\ terminal[Len(terminal)] = Line("summary", 1, 2)

----------------------------------------------------------------------------
(* C14: in each of the three fan-outs at most maxParallelism callbacks are *)
(* in flight, and callbacks are in flight in one fan-out at a time: the    *)
(* enumerations before any read is started, the reads before any transfer. *)
C14_BoundedConcurrency ==
  /\ \A st \in {opState, hashState, xferState} : Cardinality(InFlight(st)) <= maxParallelism
  /\ InFlight(opState) # {} => hashState = <<>> /\ xferState = <<>>
  /\ InFlight(hashState) # {} => InFlight(opState) = {} /\ xferState = <<>>
  /\ InFlight(xferState) # {} => InFlight(opState) = {} /\ InFlight(hashState) = {}

C14_Witness ==
  /\ result = "running"
  /\ Cardinality(InFlight(xferState)) = maxParallelism
  /\ Cardinality(Started(xferState)) < Len(xferState)
  /\ Cardinality(InFlight(hashState)) = 0
  /\ Len(hashState) = maxParallelism

----------------------------------------------------------------------------
(* The destination a matched file is said to get in a destination folder *)
ExpectedDestination(op, folder, f) ==
  folder \o (IF op.flatten = "true"
               THEN <<f[Len(f)]>>
               ELSE SubSeq(f, Len(op.sourcePath) + 1, Len(f)))

MatchedBy(op) == Range(getFileSelectionSpecifierPaths(op, files))

(* C15: every descriptor has the destination of a file matched by one of   *)
(* the operations in one of its destination folders: the folder joined     *)
(* with the file's name when flatten is set, with its path relative to the *)
(* source folder when it is not; and an operation that resolved has such a *)
(* descriptor for every matched file and every destination folder.         *)
C15_FlattenSemantics ==
  /\ \A d \in Range(copyDescriptorByDestination) :
       \E k \in DOMAIN ops : \E folder \in Range(ops[k].destinationFolders) :
         /\ d.sourcePath \in MatchedBy(ops[k])
         /\ d.destinationPath = ExpectedDestination(ops[k], folder, d.sourcePath)
  /\ \A k \in DOMAIN opState :
       (phase = "resolve" /\ opState[k] = "done")
         => \A folder \in Range(ops[k].destinationFolders) : \A f \in MatchedBy(ops[k]) :
              \E d \in Range(copyDescriptorByDestination) :
                /\ d.sourcePath = f
                /\ d.destinationPath = ExpectedDestination(ops[k], folder, f)
                /\ d.hardlink = (ops[k].hardlink = "true")

C15_Witness ==
  /\ phase = "resolve"
  /\ opState = <<"done">>
  /\ ops[1].flatten = "true"
  /\ \E d \in Range(copyDescriptorByDestination) :
       d.sourcePath = FileB /\ d.destinationPath = OutD \o <<"a.txt">>
  /\ \E d \in Range(copyDescriptorByDestination) :
       d.sourcePath = FileB /\ d.destinationPath = OutE \o <<"a.txt">>

----------------------------------------------------------------------------
(* Two distinct files matched by the operation have the same name *)
SharedBasename(op) ==
  \E f, g \in MatchedBy(op) : f # g /\ f[Len(f)] = g[Len(g)]

(* C19: an operation with flatten set that matches two distinct files of   *)
(* the same name throws the conflict error, which names that file name in  *)
(* the first destination folder, and the run is rejected.                  *)
C19_FlattenConflict ==
  \A k \in DOMAIN opState :
    (phase = "resolve" /\ opState[k] \in {"done", "threw"}
       /\ ops[k].flatten = "true" /\ SharedBasename(ops[k]))
      => /\ opState[k] = "threw"
         /\ opError[k] = ops[k].destinationFolders[1] \o <<"a.txt">>
         /\ result = "conflict"
         /\ \A folder \in Range(ops[k].destinationFolders) :
              ExpectedDestination(ops[k], folder, FileA)
                = ExpectedDestination(ops[k], folder, FileB)

C19_Witness ==
  /\ phase = "resolve"
  /\ Len(ops) = 1
  /\ opState = <<"threw">>
  /\ ops[1].flatten = "true"
  /\ Len(ops[1].destinationFolders) = 2
  /\ conflictPath = OutD \o <<"a.txt">>
  /\ Len(copyDescriptorByDestination) = 1

----------------------------------------------------------------------------
(* A destination of the run does not hold what its source holds *)
StaleDestinations ==
  {d \in Range(copyDescriptorByDestination) : dest[d.destinationPath] # files[d.sourcePath]}

C16_State ==
  Unchanged
    => /\ io.transfers = {}
       /\ xferState = <<>>
       /\ WorkKnown => copyDescriptorsWithWork = <<>>
       /\ (result = "ok" /\ Len(copyDescriptorByDestination) > 0) => Reported("upToDate")

(* C16: a run that follows a successful run with the same operations, the *)
(* same matched files and contents and the build info file left alone     *)
(* puts no descriptor in the transfer set, starts no transfer and leaves  *)
(* every destination as it found it, whatever was deleted or overwritten  *)
(* in the destinations in between.                                        *)
C16_DestinationsNotChecked ==
  /\ []C16_State
  /\ [][Unchanged => dest' = dest]_vars

C16_Witness ==
  /\ Unchanged
  /\ result = "ok"
  /\ Reported("upToDate")
  /\ \E d \in StaleDestinations : dest[d.destinationPath] = 0
  /\ \E d \in StaleDestinations : dest[d.destinationPath] # 0

----------------------------------------------------------------------------
DestinationsOf(descriptors) == {d.destinationPath : d \in Range(descriptors)}

(* C17: the map and the transfer set hold one descriptor per destination  *)
(* at every point, a declaration identical to a mapped one adds nothing,  *)
(* and every transfer started in a run writes a destination of its own.   *)
C17_State ==
  /\ Cardinality(DestinationsOf(copyDescriptorByDestination)) = Len(copyDescriptorByDestination)
  /\ Cardinality(DestinationsOf(copyDescriptorsWithWork)) = Len(copyDescriptorsWithWork)
  /\ Cardinality(io.transfers) = Cardinality(Started(xferState))
  /\ \A i, j \in InFlight(xferState) :
       i # j => copyDescriptorsWithWork[i].destinationPath
                  # copyDescriptorsWithWork[j].destinationPath

C17_DestinationUnique ==
  /\ []C17_State
  /\ [][\A i \in DOMAIN xferState :
          (xferState[i] = "queued" /\ phase' = "transfer" /\ xferState'[i] = "running")
            => copyDescriptorsWithWork[i].destinationPath \notin io.transfers]_vars

C17_Witness ==
  /\ phase = "transfer"
  /\ Cardinality(InFlight(xferState)) = 2
  /\ Len(ops) = 2
  /\ \E d \in Range(copyDescriptorByDestination) :
       /\ d \in Range(Declared(ops[1], getFileSelectionSpecifierPaths(ops[1], files)))
       /\ d \in Range(Declared(ops[2], getFileSelectionSpecifierPaths(ops[2], files)))
  /\ Len(copyDescriptorByDestination) = 3

----------------------------------------------------------------------------
(* C18, as stated: whenever a run has completed without error, every      *)
(* destination of its descriptors holds the current content of its source. *)
C18_AsStated ==
  (phase # "idle" /\ result = "ok") => StaleDestinations = {}

----------------------------------------------------------------------------
(* C20: no run ends with the "Missing hash" error: when every read has    *)
(* resolved, inputFileVersions has an entry for the source of every       *)
(* descriptor and its keys are exactly the distinct sources, which are    *)
(* the input files, each listed once.                                     *)
C20_MissingHashUnreachable ==
  /\ result # "missingHash"
  /\ phase \in {"hash", "transfer"}
       => /\ Range(allInputFiles) = Sources(copyDescriptorByDestination)
          /\ Len(allInputFiles) = Cardinality(Sources(copyDescriptorByDestination))
  /\ ((phase = "hash" /\ AllResolved(hashState)) \/ phase = "transfer")
       => /\ DOMAIN inputFileVersions = Sources(copyDescriptorByDestination)
          /\ \A d \in Range(copyDescriptorByDestination) :
               MapGet(inputFileVersions, d.sourcePath) # <<>>
          /\ ~MissingHash(copyDescriptorByDestination, inputFileVersions)

C20_Witness ==
  /\ phase = "hash"
  /\ AllResolved(hashState)
  /\ result = "running"
  /\ Len(allInputFiles) = 2
  /\ Len(copyDescriptorByDestination) = 3
  /\ DOMAIN inputFileVersions = Sources(copyDescriptorByDestination)

----------------------------------------------------------------------------
(* C21: once every operation of a run has resolved without adding a        *)
(* descriptor, the run never enters hashing, has not read the build info   *)
(* file, has hashed no file, started no transfer, written no line and not  *)
(* written the build info file, which is as it was when the run started,   *)
(* whatever configHash it holds; and the step that follows the resolution  *)
(* ends the run without error.                                             *)
C21_State ==
  (phase # "idle" /\ AllResolved(opState) /\ copyDescriptorByDestination = <<>>)
    => /\ phase = "resolve"
       /\ result \in {"running", "ok"}
       /\ io = NoIo
       /\ terminal = <<>>
       /\ snapshot = snapAtStart

C21_EmptyRunTouchesNothing ==
  /\ []C21_State
  /\ [][(phase = "resolve" /\ result = "running" /\ AllResolved(opState)
          /\ copyDescriptorByDestination = <<>> /\ ResolveDone)
           => (result' = "ok" /\ snapshot' = snapshot /\ dest' = dest)]_vars

(* A run over a tree without source files has ended, while the build info *)
(* file holds the configHash of other operations                          *)
C21_Witness ==
  /\ phase = "resolve"
  /\ result = "ok"
  /\ AllResolved(opState)
  /\ copyDescriptorByDestination = <<>>
  /\ snapshot.present
  /\ snapshot.configHash # configHash
  /\ snapshot.inputFileVersions # <<>>

----------------------------------------------------------------------------
(* Vocabulary of the properties of runAsync *)

Did(name) == \E k \in DOMAIN events : events[k].name = name

Ended == pc \in {"resolved", "rejected"}

(* Every call of _doInstall the run made or was to make is over: nothing  *)
(* is awaited, and each call resolved unless an earlier one rejected      *)
AttemptsFinished ==
  /\ pc # "doInstall"
  /\ installed = InstallCalls(selectedSubspaces) \/ ~installSuccessful

(* C22, as stated: a run that handled preRushInstall has, when it ends    *)
(* with success or with an error, handled postRushInstall, started the    *)
(* purge cleanup and collected the telemetry; and postRushInstall is      *)
(* handled only when every install attempt of the run has finished.       *)
C22_AsStated ==
  /\ (Ended /\ Did("preRushInstall"))
       => /\ Did("postRushInstall")
          /\ Did("startDeleteAllAsync")
          /\ Did("collectTelemetry")
  /\ Did("postRushInstall") => AttemptsFinished

====
